---- MODULE Spec2Model ----
(***************************************************************************)
(* Model of covid.py, the WHO COVID-19 dashboard: load_data (memoized by   *)
(* st.cache_data), preprocess, and main, the script that is re-run from    *)
(* top to bottom on every widget interaction (one "render cycle").         *)
(*                                                                         *)
(* Strings are sequences of one-character strings, so that str.strip,      *)
(* str.lower, the substring test and the ordering used by sorted() are     *)
(* computed and not assumed.  A table is [columns, rows]: columns are the   *)
(* labels, as such strings; a row is a record of cells, the cell of a      *)
(* column under the field Fields[label]; a cell is [t, s, v] with t       *)
(* "null" (NaN/None), "str" (text s) or "num" (number v).  Numbers are     *)
(* integers; quotients are exact fractions [k |-> "fin", n, d] and the     *)
(* IEEE results of a division by zero are [k |-> "inf"], "-inf" and "nan". *)
(* Floating-point rounding is outside the model.                           *)
(***************************************************************************)
EXTENDS Integers, Sequences, FiniteSets, TLC

VARIABLES fs, envSet, served, cache, tried, shown, status,
          df_raw, df, c1, c2, metric, date_range, views

vars == <<fs, envSet, served, cache, tried, shown, status,
          df_raw, df, c1, c2, metric, date_range, views>>

\* The environment of the process: what each candidate source does (fs),
\* whether DATA_URL is set (envSet), the table each candidate holds (served).
sources == <<fs, envSet, served>>

(***************************************************************************)
(* Strings                                                                 *)
(***************************************************************************)
\* Python's ord() on the characters the model's country names use.
CodePoints ==
    (" " :> 32) @@ ("A" :> 65) @@ ("B" :> 66) @@ ("C" :> 67) @@ ("D" :> 68)
      @@ ("E" :> 69) @@ ("F" :> 70) @@ ("G" :> 71) @@ ("H" :> 72) @@ ("I" :> 73)
      @@ ("J" :> 74) @@ ("K" :> 75) @@ ("L" :> 76) @@ ("U" :> 85) @@ ("a" :> 97)
      @@ ("k" :> 107) @@ ("l" :> 108) @@ ("n" :> 110) @@ ("o" :> 111)
      @@ ("t" :> 116) @@ ("w" :> 119) @@ ("y" :> 121)

CodePoint(ch) == CodePoints[ch]

\* str.lower on one character.
LowerCh(ch) ==
    CASE ch = "A" -> "a" [] ch = "B" -> "b" [] ch = "C" -> "c" [] ch = "D" -> "d"
      [] ch = "E" -> "e" [] ch = "I" -> "i" [] ch = "K" -> "k" [] ch = "N" -> "n"
      [] ch = "U" -> "u"
      [] OTHER -> ch

Lower(s) == [i \in 1..Len(s) |-> LowerCh(s[i])]

IsSpace(ch) == ch = " "

\* str.strip: drop the leading and the trailing whitespace.
RECURSIVE LStrip(_)
LStrip(s) ==
    IF s # <<>> /\ IsSpace(Head(s)) THEN LStrip(Tail(s)) ELSE s

RECURSIVE RStrip(_)
RStrip(s) ==
    IF s # <<>> /\ IsSpace(s[Len(s)]) THEN RStrip(SubSeq(s, 1, Len(s) - 1)) ELSE s

Strip(s) == RStrip(LStrip(s))

\* needle in s
Contains(s, needle) ==
    \E i \in 1..(Len(s) - Len(needle) + 1) :
        SubSeq(s, i, i + Len(needle) - 1) = needle

\* Python's < on str: lexicographic by code point.
Ord(s) == [i \in 1..Len(s) |-> CodePoint(s[i])]

RECURSIVE LexLess(_, _)
LexLess(a, b) ==
    IF b = <<>> THEN FALSE
    ELSE IF a = <<>> THEN TRUE
    ELSE IF Head(a) # Head(b) THEN Head(a) < Head(b)
    ELSE LexLess(Tail(a), Tail(b))

StrLess(a, b) == LexLess(Ord(a), Ord(b))

\* Column names and literals of the script.
COUNTRY == <<"C", "o", "u", "n", "t", "r", "y">>
DATE_REPORTED == <<"D", "a", "t", "e", "_", "r", "e", "p", "o", "r", "t", "e", "d">>
DATE == <<"D", "a", "t", "e">>
NEW_CASES == <<"N", "e", "w", "_", "c", "a", "s", "e", "s">>
NEW_DEATHS == <<"N", "e", "w", "_", "d", "e", "a", "t", "h", "s">>
CUMULATIVE_CASES == <<"C", "u", "m", "u", "l", "a", "t", "i", "v", "e", "_", "c", "a", "s", "e", "s">>
CUMULATIVE_DEATHS == <<"C", "u", "m", "u", "l", "a", "t", "i", "v", "e", "_", "d", "e", "a", "t", "h", "s">>
Unknown == <<"U", "n", "k", "n", "o", "w", "n">>
Italy == <<"I", "t", "a", "l", "y">>
country_lc == <<"c", "o", "u", "n", "t", "r", "y">>

Country_code == COUNTRY \o <<"_", "c", "o", "d", "e">>

NumericCols == <<NEW_CASES, NEW_DEATHS, CUMULATIVE_CASES, CUMULATIVE_DEATHS>>
Metrics == <<"New_cases", "New_deaths">>

\* The record field that holds the cells of the column with a given label.
Fields ==
    (COUNTRY :> "Country") @@ (Country_code :> "Country_code")
      @@ (DATE_REPORTED :> "Date_reported") @@ (DATE :> "Date")
      @@ (NEW_CASES :> "New_cases") @@ (NEW_DEATHS :> "New_deaths")
      @@ (CUMULATIVE_CASES :> "Cumulative_cases")
      @@ (CUMULATIVE_DEATHS :> "Cumulative_deaths")

(***************************************************************************)
(* Cells and tables                                                        *)
(***************************************************************************)
NullCell == [t |-> "null", s |-> <<>>, v |-> 0]
StrCell(x) == [t |-> "str", s |-> x, v |-> 0]
NumCell(x) == [t |-> "num", s |-> <<>>, v |-> x]

Range(f) == {f[i] : i \in DOMAIN f}

EmptyTable == [columns |-> <<>>, rows |-> <<>>]

\* df[col] = cells: assigning a column appends its name when it is new.
WithColumn(columns, col) ==
    IF col \in Range(columns) THEN columns ELSE Append(columns, col)

SetCell(row, col, cell) ==
    [k \in (DOMAIN row) \cup {col} |-> IF k = col THEN cell ELSE row[k]]

(***************************************************************************)
(* load_data                                                               *)
(***************************************************************************)
\* The four candidates: the file in the working directory, the file beside
\* the script, the DATA_URL override, the hardcoded raw GitHub URL.
CWD_FILE == 1
SCRIPT_FILE == 2
ENV_URL == 3
github_raw == 4
Candidates == {CWD_FILE, SCRIPT_FILE, ENV_URL, github_raw}

\* What pd.read_csv does on a candidate: returns a table ("ok"), raises
\* FileNotFoundError ("notfound") or raises any other exception ("other").
Outcomes == {"ok", "notfound", "other"}

NoMessage == [kind |-> "none", candidate |-> 0, cause |-> "none"]
ReadError(p, e) == [kind |-> "read_error", candidate |-> p, cause |-> e]
Remediation == [kind |-> "remediation", candidate |-> 0, cause |-> "none"]

\* One read attempt, as the cycle's record of attempts (tried) keeps it.
Attempt(p, outc) == [candidate |-> p, outcome |-> outc[p]]

try_paths(env) ==
    <<CWD_FILE, SCRIPT_FILE>> \o (IF env THEN <<ENV_URL>> ELSE <<>>)

\* df.columns = [c.strip() for c in df.columns]: the labels change, the
\* cells stay where they are.
StripColumns(t) ==
    [columns |-> [i \in 1..Len(t.columns) |-> Strip(t.columns[i])], rows |-> t.rows]

Returned(t, att) == [outcome |-> "returned", table |-> t, tried |-> att, shown |-> NoMessage]
Stopped(msg, att) == [outcome |-> "stopped", table |-> EmptyTable, tried |-> att, shown |-> msg]

\* The final fallback (lines 48-63): any exception gives the remediation text.
FinalFallback(outc, tabs, att) ==
    LET att2 == Append(att, Attempt(github_raw, outc)) IN
    IF outc[github_raw] = "ok" THEN Returned(StripColumns(tabs[github_raw]), att2)
    ELSE Stopped(Remediation, att2)

\* A variant that goes on to the next candidate after any failure.
RECURSIVE TryEachSkipAll(_, _, _, _)
TryEachSkipAll(paths, outc, tabs, att) ==
    IF paths = <<>> THEN FinalFallback(outc, tabs, att)
    ELSE LET p == Head(paths) att2 == Append(att, Attempt(p, outc)) IN
         IF outc[p] = "ok" THEN Returned(StripColumns(tabs[p]), att2)
         ELSE TryEachSkipAll(Tail(paths), outc, tabs, att2)

\* The loop over try_paths (lines 35-46), then the final fallback.
RECURSIVE TryEach(_, _, _, _)
TryEach(paths, outc, tabs, att) ==
    IF paths = <<>> THEN FinalFallback(outc, tabs, att)
    ELSE LET p == Head(paths) att2 == Append(att, Attempt(p, outc)) IN
         IF outc[p] = "ok" THEN Returned(StripColumns(tabs[p]), att2)
         ELSE IF outc[p] = "notfound" THEN TryEach(Tail(paths), outc, tabs, att2)
         ELSE Stopped(ReadError(p, outc[p]), att2)

load_data(outc, env, tabs) == TryEach(try_paths(env), outc, tabs, <<>>)

\* @st.cache_data: the memo of load_data, which takes no arguments.
NoCache == [has |-> FALSE, table |-> EmptyTable]
Cached(t) == [has |-> TRUE, table |-> t]

\* A variant that runs the body on every call.
cached_load_uncached(memo, outc, env, tabs) ==
    LET r == load_data(outc, env, tabs) IN
    [result |-> r, memo |-> IF r.outcome = "returned" THEN Cached(r.table) ELSE memo]

\* A call of the decorated load_data: the stored value when there is one,
\* else the body; only a returned value is stored.
cached_load(memo, outc, env, tabs) ==
    IF memo.has THEN [result |-> Returned(memo.table, <<>>), memo |-> memo]
    ELSE LET r == load_data(outc, env, tabs) IN
         [result |-> r, memo |-> IF r.outcome = "returned" THEN Cached(r.table) ELSE memo]

(***************************************************************************)
(* Numbers                                                                 *)
(***************************************************************************)
Abs(x) == IF x < 0 THEN -x ELSE x

RECURSIVE GCD(_, _)
GCD(a, b) == IF b = 0 THEN a ELSE GCD(b, a % b)

\* Float values: an exact fraction in lowest terms, or an IEEE special.
Fin(n, d) ==
    LET g == GCD(Abs(n), Abs(d))
        sg == IF d < 0 THEN -1 ELSE 1
    IN [k |-> "fin", n |-> (sg * n) \div g, d |-> (sg * d) \div g]
Zero == [k |-> "fin", n |-> 0, d |-> 1]
NaN == [k |-> "nan", n |-> 0, d |-> 1]
PosInf == [k |-> "inf", n |-> 0, d |-> 1]
NegInf == [k |-> "-inf", n |-> 0, d |-> 1]

\* a / b on floats, a and b integers: x/0 is inf, -inf or nan, never an error.
Div(a, b) ==
    IF b # 0 THEN Fin(a, b)
    ELSE IF a > 0 THEN PosInf
    ELSE IF a < 0 THEN NegInf
    ELSE NaN

\* x - 1 on a float.
MinusOne(x) == IF x.k = "fin" THEN Fin(x.n - x.d, x.d) ELSE x

\* Series.fillna(0) on one value.
FillNa0(x) == IF x.k = "nan" THEN Zero ELSE x

RECURSIVE SumSeq(_)
SumSeq(s) == IF s = <<>> THEN 0 ELSE Head(s) + SumSeq(Tail(s))

\* The set S of integers, or of strings, as an ascending sequence.
RECURSIVE SortedInts(_)
SortedInts(S) ==
    IF S = {} THEN <<>>
    ELSE LET m == CHOOSE x \in S : \A y \in S : x <= y
         IN <<m>> \o SortedInts(S \ {m})

InsertString(sorted, x) ==
    LET k == Cardinality({j \in 1..Len(sorted) : StrLess(sorted[j], x)})
    IN SubSeq(sorted, 1, k) \o <<x>> \o SubSeq(sorted, k + 1, Len(sorted))

RECURSIVE SortedStrings(_)
SortedStrings(S) ==
    IF S = {} THEN <<>>
    ELSE LET x == CHOOSE y \in S : TRUE
         IN InsertString(SortedStrings(S \ {x}), x)

\* list.index(x), 0-based.
IndexOf(seq, x) == (CHOOSE i \in 1..Len(seq) : seq[i] = x /\ \A j \in 1..(i - 1) : seq[j] # x) - 1

(***************************************************************************)
(* preprocess                                                              *)
(***************************************************************************)
DigitVal(ch) ==
    CASE ch = "0" -> 0 [] ch = "1" -> 1 [] ch = "2" -> 2 [] ch = "3" -> 3
      [] ch = "4" -> 4 [] ch = "5" -> 5 [] ch = "6" -> 6 [] ch = "7" -> 7
      [] ch = "8" -> 8 [] ch = "9" -> 9 [] OTHER -> -1

RECURSIVE DigitsValue(_, _)
DigitsValue(s, acc) ==
    IF s = <<>> THEN acc ELSE DigitsValue(Tail(s), 10 * acc + DigitVal(Head(s)))

\* pd.to_numeric(errors="coerce") on one cell: a number stays, a text of
\* digits is read, anything else becomes NaN.
to_numeric(cell) ==
    IF cell.t = "num" THEN cell
    ELSE IF cell.t = "str" /\ cell.s # <<>> /\ \A i \in 1..Len(cell.s) : DigitVal(cell.s[i]) >= 0
         THEN NumCell(DigitsValue(cell.s, 0))
    ELSE NullCell

\* Series.fillna(x) on one cell.
fillna(cell, x) == IF cell.t = "null" THEN x ELSE cell

\* pd.to_datetime(errors="coerce").dt.date on one cell: the calendar day of a
\* timestamp (timestamps are day numbers here), NaT for anything else.
to_date(cell) == IF cell.t = "num" THEN cell ELSE NullCell

\* [c for c in df.columns if "country" in c.lower()]
country_cols(columns) ==
    SelectSeq(columns, LAMBDA c : Contains(Lower(c), country_lc))

\* Lines 68-74: the Country column of one row, before cleaning; found is
\* country_cols.
CountryFrom(columns, row, found) ==
    IF COUNTRY \in Range(columns) THEN row.Country
    ELSE IF found # <<>> THEN row[Fields[found[1]]]
    ELSE StrCell(Unknown)

CountrySource(columns, row) == CountryFrom(columns, row, country_cols(columns))

\* Line 80: fillna("Unknown").astype(str).str.strip()
CleanCountry(cell) == StrCell(Strip(fillna(cell, StrCell(Unknown)).s))

\* Line 75.
WithDate(row) == SetCell(row, "Date", to_date(row.Date_reported))

\* Lines 76-78.
WithNumbers(row) ==
    [k \in DOMAIN row |->
        IF k \in {Fields[c] : c \in Range(NumericCols)} THEN fillna(to_numeric(row[k]), NumCell(0))
        ELSE row[k]]

\* Line 80.
WithCleanCountry(row) == [row EXCEPT !.Country = CleanCountry(row.Country)]

PreprocessRow(columns, row) ==
    WithCleanCountry(WithNumbers(WithDate(
        SetCell(row, "Country", CountrySource(columns, row)))))

preprocess(t) ==
    [columns |-> WithColumn(WithColumn(t.columns, COUNTRY), DATE),
     rows |-> [i \in 1..Len(t.rows) |-> PreprocessRow(t.columns, t.rows[i])]]

(***************************************************************************)
(* main: filters and aggregations                                          *)
(***************************************************************************)
MaxOf(S) == CHOOSE x \in S : \A y \in S : y <= x
MinOf(S) == CHOOSE x \in S : \A y \in S : x <= y

Ctry(r) == r.Country.s

\* sorted(df["Country"].unique())
all_countries(t) == SortedStrings({Ctry(r) : r \in Range(t.rows)})

\* The non-null report dates, whose min and max bound the slider.
ReportDates(t) == {r.Date_reported.v : r \in {x \in Range(t.rows) : x.Date_reported.t = "num"}}

\* Lines 109-110: comparisons with a null date are False.
df_f(t, range) ==
    SelectSeq(t.rows, LAMBDA r : r.Date.t = "num" /\ r.Date.v >= range[1] /\ r.Date.v <= range[2])

\* df_f[df_f["Country"] == c]
CountryRows(rows, c) == SelectSeq(rows, LAMBDA r : Ctry(r) = c)

\* rows.assign(Country=c)
AssignCountry(rows, c) == [i \in 1..Len(rows) |-> [rows[i] EXCEPT !.Country = StrCell(c)]]

\* pd.concat([df_c1.assign(Country=c1), df_c2.assign(Country=c2)])
df_compare(window, a, b) ==
    AssignCountry(CountryRows(window, a), a) \o AssignCountry(CountryRows(window, b), b)

\* rows[col].sum()
SumOver(rows, col) == SumSeq([i \in 1..Len(rows) |-> rows[i][col].v])

\* rows.groupby("Date")[col].sum().reset_index(): one row per date, ascending.
GroupByDateSum(rows, col) ==
    LET ds == SortedInts({r.Date.v : r \in Range(rows)}) IN
    [i \in 1..Len(ds) |->
        [Date |-> ds[i],
         Total |-> SumOver(SelectSeq(rows, LAMBDA r : r.Date.v = ds[i]), col)]]

\* g["..."].sum() of a grouped table.
SumTotals(g) == SumSeq([i \in 1..Len(g) |-> g[i].Total])

\* Line 115.
df_global(window) ==
    LET ds == SortedInts({r.Date.v : r \in Range(window)}) IN
    [i \in 1..Len(ds) |->
        [Date |-> ds[i],
         New_cases |-> SumOver(SelectSeq(window, LAMBDA r : r.Date.v = ds[i]), "New_cases"),
         New_deaths |-> SumOver(SelectSeq(window, LAMBDA r : r.Date.v = ds[i]), "New_deaths")]]

\* groupby("Country")[m].pct_change() on row i: the value over the value of
\* the previous row of the same group, in the order of the rows, minus one;
\* NaN on the first row of a group.
pct_change(rows, m, i) ==
    LET before == {j \in 1..(i - 1) : rows[j].Country = rows[i].Country} IN
    IF before = {} THEN NaN
    ELSE MinusOne(Div(rows[i][m].v, rows[MaxOf(before)][m].v))

\* Lines 130-131.
df_gr(compare, m) ==
    [i \in 1..Len(compare) |->
        [Country |-> Ctry(compare[i]), Date |-> compare[i].Date.v,
         Value |-> compare[i][m].v,
         GrowthRate |-> FillNa0(pct_change(compare, m, i))]]

Raised == [k |-> "raise", n |-> 0, d |-> 1]

\* A variant of Series.max that raises on an empty series, as the builtin max does.
SeriesMaxRaising(rows, m) ==
    IF rows = <<>> THEN Raised
    ELSE Fin(MaxOf({rows[i][m].v : i \in 1..Len(rows)}), 1)

\* Series.max(): NaN on an empty series.
SeriesMax(rows, m) ==
    IF rows = <<>> THEN NaN
    ELSE Fin(MaxOf({rows[i][m].v : i \in 1..Len(rows)}), 1)

\* Series.mean(): NaN on an empty series.
SeriesMean(rows, m) ==
    IF rows = <<>> THEN NaN ELSE Div(SumOver(rows, m), Len(rows))

\* Line 260: deaths / cases.replace({0: None}).
CFR(r) ==
    IF r.Cumulative_cases.v = 0 THEN NaN
    ELSE Div(r.Cumulative_deaths.v, r.Cumulative_cases.v)

df_cfr(compare) ==
    [i \in 1..Len(compare) |->
        [Country |-> Ctry(compare[i]), Date |-> compare[i].Date.v,
         Cumulative_cases |-> compare[i].Cumulative_cases.v,
         Cumulative_deaths |-> compare[i].Cumulative_deaths.v,
         CFR |-> CFR(compare[i])]]

\* sort_values(ascending=False): descending, equal totals keep their order.
RECURSIVE SortDesc(_)
SortDesc(s) ==
    IF s = <<>> THEN <<>>
    ELSE LET rest == SortDesc(SubSeq(s, 1, Len(s) - 1))
             x == s[Len(s)]
             k == Cardinality({j \in 1..Len(rest) : rest[j].Total >= x.Total})
         IN SubSeq(rest, 1, k) \o <<x>> \o SubSeq(rest, k + 1, Len(rest))

\* Lines 284-289: groupby("Country") orders the groups by country.
df_rank(window, m) ==
    LET cs == SortedStrings({Ctry(r) : r \in Range(window)}) IN
    SortDesc([i \in 1..Len(cs) |->
                [Country |-> cs[i], Total |-> SumOver(CountryRows(window, cs[i]), m)]])

head_n == 10

Head10(s) == SubSeq(s, 1, IF Len(s) < head_n THEN Len(s) ELSE head_n)

\* Lines 295-298, one pass of the loop.
EnsureSelected(top, rank, sel) ==
    IF sel \in {top[i].Country : i \in 1..Len(top)} THEN top
    ELSE top \o SelectSeq(rank, LAMBDA x : x.Country = sel)

\* Lines 292-303.
df_top(rank, a, b) ==
    LET top == EnsureSelected(EnsureSelected(Head10(rank), rank, a), rank, b) IN
    [i \in 1..Len(top) |->
        [Country |-> top[i].Country, Total |-> top[i].Total,
         Selected |-> top[i].Country \in {a, b}]]

\* The derived views of one cycle, from the window and df_compare.
Views(window, compare, total_two, total_world, a, b, m) ==
    [window |-> window,
     df_global |-> df_global(window),
     df_compare |-> compare,
     df_gr |-> df_gr(compare, m),
     peak1 |-> SeriesMax(CountryRows(window, a), m),
     mean1 |-> SeriesMean(CountryRows(window, a), m),
     peak2 |-> SeriesMax(CountryRows(window, b), m),
     mean2 |-> SeriesMean(CountryRows(window, b), m),
     total_two |-> total_two,
     total_world |-> total_world,
     total_rest |-> total_world - total_two,
     df_cfr |-> df_cfr(compare),
     df_top |-> df_top(df_rank(window, m), a, b)]

\* Lines 222-229.
WithTotals(window, compare, a, b, m) ==
    Views(window, compare,
          SumTotals(GroupByDateSum(compare, m)), SumTotals(GroupByDateSum(window, m)),
          a, b, m)

InWindow(window, a, b, m) == WithTotals(window, df_compare(window, a, b), a, b, m)

Aggregate(t, a, b, m, range) == InWindow(df_f(t, range), a, b, m)

(***************************************************************************)
(* main: one render cycle                                                  *)
(***************************************************************************)
NoViews == [window |-> <<>>]
NoRange == <<0, 0>>

\* The widget state of the session: fresh is TRUE before the first cycle of a
\* session, when every widget returns its default.
FreshWidgets == [fresh |-> TRUE, c1 |-> <<>>, c2 |-> <<>>, metric |-> "New_cases", range |-> NoRange]
Widgets(a, b, m, range) == [fresh |-> FALSE, c1 |-> a, c2 |-> b, metric |-> m, range |-> range]

Failed(st, raw, t) ==
    [status |-> st, df_raw |-> raw, df |-> t, c1 |-> <<>>, c2 |-> <<>>, metric |-> "New_cases",
     date_range |-> NoRange, views |-> NoViews]

\* Line 104: the default index of the comparison selector, 0-based.
DefaultIndex2(options) ==
    IF Italy \in Range(options) THEN IndexOf(options, Italy) ELSE 1

AnyRaised(v) == Raised \in {v.peak1, v.mean1, v.peak2, v.mean2}

Rendered(raw, t, a, b, m, range, v) ==
    [status |-> IF AnyRaised(v) THEN "error" ELSE "ok",
     df_raw |-> raw, df |-> t, c1 |-> a, c2 |-> b, metric |-> m, date_range |-> range, views |-> v]

RenderWith(raw, t, a, b, m, range) ==
    Rendered(raw, t, a, b, m, range, Aggregate(t, a, b, m, range))

\* Lines 102-107: the widgets return their defaults in a fresh session, and
\* the stored selection afterwards.
Sidebar(raw, t, options, dates, w) ==
    IF w.fresh
    THEN RenderWith(raw, t, options[1], options[DefaultIndex2(options) + 1], Metrics[1],
                    <<MinOf(dates), MaxOf(dates)>>)
    ELSE RenderWith(raw, t, w.c1, w.c2, w.metric, w.range)

\* Lines 98-323 on a cleaned table.  An exception (a KeyError for a column
\* the script reads that the table lacks, st.selectbox rejecting an index
\* outside its options, an aggregation raising) ends the cycle in "error".
RenderClean(raw, t, options, dates, w) ==
    IF ~ (Range(NumericCols) \subseteq Range(t.columns)) \/ dates = {} \/ options = <<>>
    THEN Failed("error", raw, t)
    ELSE IF w.fresh /\ DefaultIndex2(options) >= Len(options)
    THEN Failed("error", raw, t)
    ELSE Sidebar(raw, t, options, dates, w)

Options(raw, t, w) == RenderClean(raw, t, all_countries(t), ReportDates(t), w)

Render(raw, w) == Options(raw, preprocess(raw), w)

Commit(memo, result, r) ==
    /\ cache' = memo
    /\ tried' = result.tried
    /\ shown' = result.shown
    /\ status' = r.status
    /\ df_raw' = r.df_raw
    /\ df' = r.df
    /\ c1' = r.c1
    /\ c2' = r.c2
    /\ metric' = r.metric
    /\ date_range' = r.date_range
    /\ views' = r.views

\* Line 97 onwards: st.stop() in load_data halts the cycle.
AfterLoad(l, w) ==
    Commit(l.memo, l.result,
           IF l.result.outcome = "stopped" THEN Failed("halted", EmptyTable, EmptyTable)
           ELSE Render(l.result.table, w))

\* main(): one run of the script, with the session's widget state w.
Main(w) == AfterLoad(cached_load(cache, fs, envSet, served), w)

\* A browser session opens (or is reloaded): the first cycle, widgets at
\* their defaults.
OpenSession ==
    /\ Main(FreshWidgets)
    /\ UNCHANGED sources

SelectPrimary ==
    /\ status = "ok"
    /\ \E c \in Range(all_countries(df)) \ {c1} : Main(Widgets(c, c2, metric, date_range))
    /\ UNCHANGED sources

SelectComparison ==
    /\ status = "ok"
    /\ \E c \in Range(all_countries(df)) \ {c2} : Main(Widgets(c1, c, metric, date_range))
    /\ UNCHANGED sources

SelectMetric ==
    /\ status = "ok"
    /\ \E m \in Range(Metrics) \ {metric} : Main(Widgets(c1, c2, m, date_range))
    /\ UNCHANGED sources

SelectDateRange ==
    /\ status = "ok"
    /\ \E lo, hi \in MinOf(ReportDates(df))..MaxOf(ReportDates(df)) :
          /\ lo <= hi
          /\ <<lo, hi>> # date_range
          /\ Main(Widgets(c1, c2, metric, <<lo, hi>>))
    /\ UNCHANGED sources

\* The environment: a candidate source appears, disappears or breaks.
SourceChange ==
    /\ \E p \in Candidates, o \in Outcomes :
          /\ fs[p] # o
          /\ fs' = [fs EXCEPT ![p] = o]
    /\ UNCHANGED <<envSet, served, cache, tried, shown, status,
                   df_raw, df, c1, c2, metric, date_range, views>>

InitProcess ==
    /\ cache = NoCache
    /\ tried = <<>>
    /\ shown = NoMessage
    /\ status = "init"
    /\ df_raw = EmptyTable
    /\ df = EmptyTable
    /\ c1 = <<>>
    /\ c2 = <<>>
    /\ metric = "New_cases"
    /\ date_range = NoRange
    /\ views = NoViews

Interact ==
    \/ OpenSession
    \/ SelectPrimary
    \/ SelectComparison
    \/ SelectMetric
    \/ SelectDateRange

(***************************************************************************)
(* Input families                                                          *)
(***************************************************************************)
MaxRows == 3
MaxFileRows == 3
MaxFileDate == 3
MaxDirtyRows == 2
MaxDate == 2

StdColumns ==
    <<DATE_REPORTED, COUNTRY, NEW_CASES, NEW_DEATHS, CUMULATIVE_CASES, CUMULATIVE_DEATHS>>

\* The numeric fields of a record of the file.
Readings ==
    {[nc |-> 0, nd |-> 0, cc |-> 0, cd |-> 0],
     [nc |-> 2, nd |-> 1, cc |-> 4, cd |-> 1]}

MkRow(c, d, rd) ==
    [Date_reported |-> NumCell(d), Country |-> StrCell(c),
     New_cases |-> NumCell(rd.nc), New_deaths |-> NumCell(rd.nd),
     Cumulative_cases |-> NumCell(rd.cc), Cumulative_deaths |-> NumCell(rd.cd)]

MkTable(rows) == [columns |-> StdColumns, rows |-> rows]

\* Only the file in the working directory exists, and holds table t.
LocalFile(t) ==
    /\ fs = [p \in Candidates |-> IF p = CWD_FILE THEN "ok" ELSE "notfound"]
    /\ envSet = FALSE
    /\ served = [p \in Candidates |-> IF p = CWD_FILE THEN t ELSE EmptyTable]

AggCountries == {<<"A">>, Italy}
RowChoices == {MkRow(c, d, rd) : c \in AggCountries, d \in 1..MaxDate, rd \in Readings}
KeyOf(r) == <<r.Country.s, r.Date_reported.v>>
KeyLess(x, y) == StrLess(x[1], y[1]) \/ (x[1] = y[1] /\ x[2] < y[2])

\* One row per (country, report date), the rows in any order.
AnyOrderFiles ==
    UNION {{s \in [1..n -> RowChoices] :
               \A i, j \in 1..n : i # j => KeyOf(s[i]) # KeyOf(s[j])} : n \in 1..MaxRows}

\* A file as published: the rows ordered by country and date, the cumulative
\* counts the running sums of the daily ones from day 1 (A reports d - 1 new
\* cases and no death on day d, Italy 2 new cases and 1 death every day);
\* some days of some countries are missing.
Published(c, d) ==
    IF c = Italy THEN [nc |-> 2, nd |-> 1, cc |-> 2 * d, cd |-> d]
    ELSE [nc |-> d - 1, nd |-> 0, cc |-> (d * (d - 1)) \div 2, cd |-> 0]

PublishedRows == {MkRow(c, d, Published(c, d)) : c \in AggCountries, d \in 1..MaxFileDate}

SortedFiles ==
    UNION {{s \in [1..n -> PublishedRows] :
               \A i \in 1..(n - 1) : KeyLess(KeyOf(s[i]), KeyOf(s[i + 1]))} : n \in 1..MaxFileRows}

\* Ranking: twelve countries, one row each; A..J report 21..12 new cases on
\* day 1, K reports 1 or 30 new cases on day 1 and L 1 new case on day 2;
\* every row has one new death.
Letters == <<"A", "B", "C", "D", "E", "F", "G", "H", "I", "J", "K", "L">>
RankFiles ==
    {[i \in 1..Len(Letters) |->
         IF i <= head_n
         THEN MkRow(<<Letters[i]>>, 1, [nc |-> 22 - i, nd |-> 1, cc |-> 22 - i, cd |-> 1])
         ELSE IF i = head_n + 1
         THEN MkRow(<<Letters[i]>>, 1, [nc |-> k, nd |-> 1, cc |-> k, cd |-> 1])
         ELSE MkRow(<<Letters[i]>>, 2, [nc |-> 1, nd |-> 1, cc |-> 1, cd |-> 1])]
       : k \in {1, 30}}

InitRank ==
    /\ InitProcess
    /\ \E rows \in RankFiles : LocalFile(MkTable(rows))

\* Dirty files: the country column under its name, under another name or
\* absent; country cells null, blank or text with stray blanks; New_cases
\* cells null, unparseable text, digits as text or a number; the cumulative
\* columns present or absent.
CountryHeaders == {<<COUNTRY>>, <<Country_code>>, <<>>}
CountryCells == {NullCell, StrCell(<<" ">>), StrCell(<<"A">>), StrCell(<<" ", "B", " ">>)}
NumberCells == {NullCell, StrCell(<<"x">>), StrCell(<<"1", "2">>), NumCell(3)}

DirtyRow(hdr, cum, d, cc, nc) ==
    [Date_reported |-> NumCell(d), New_cases |-> nc, New_deaths |-> NumCell(1)]
      @@ (IF hdr = <<>> THEN <<>> ELSE (Fields[hdr[1]] :> cc))
      @@ (IF cum THEN [Cumulative_cases |-> NumCell(d), Cumulative_deaths |-> NumCell(0)]
          ELSE <<>>)

DirtyFiles ==
    {[columns |-> <<DATE_REPORTED>> \o hdr \o <<NEW_CASES, NEW_DEATHS>>
                    \o (IF cum THEN <<CUMULATIVE_CASES, CUMULATIVE_DEATHS>> ELSE <<>>),
      rows |-> [i \in 1..n |-> DirtyRow(hdr, cum, i, ccs[i], ncs[i])]]
       : hdr \in CountryHeaders, cum \in BOOLEAN,
         n \in {MaxDirtyRows},
         ccs \in [1..MaxDirtyRows -> CountryCells], ncs \in [1..MaxDirtyRows -> NumberCells]}

InitPre ==
    /\ InitProcess
    /\ \E t \in DirtyFiles : LocalFile(t)

InitAgg ==
    /\ InitProcess
    /\ \E rows \in AnyOrderFiles : LocalFile(MkTable(rows))

InitWindow ==
    /\ InitProcess
    /\ \E rows \in SortedFiles : LocalFile(MkTable(rows))

\* Loader: every combination of candidate outcomes; candidate p serves a
\* table of its own (a header with stray blanks, New_cases = p, two dates).
LoaderTable(p) ==
    [columns |-> <<DATE_REPORTED, <<" ">> \o COUNTRY \o <<" ">>, NEW_CASES, NEW_DEATHS,
                   CUMULATIVE_CASES, CUMULATIVE_DEATHS>>,
     rows |-> [i \in 1..2 |->
        [Date_reported |-> NumCell(i),
         Country |-> StrCell(IF i = 1 THEN <<"A">> ELSE <<"B">>),
         New_cases |-> NumCell(p), New_deaths |-> NumCell(0),
         Cumulative_cases |-> NumCell(p), Cumulative_deaths |-> NumCell(0)]]]

Init ==
    /\ InitProcess
    /\ fs \in [Candidates -> Outcomes]
    /\ envSet \in BOOLEAN
    /\ served = [p \in Candidates |-> LoaderTable(p)]

Next == Interact \/ SourceChange

Spec == Init /\ [][Next]_vars
SpecAgg == InitAgg /\ [][Interact]_vars
SpecWindow == InitWindow /\ [][Interact]_vars
SpecRank == InitRank /\ [][Interact]_vars
SpecPre == InitPre /\ [][Interact]_vars

(***************************************************************************)
(* Properties                                                              *)
(***************************************************************************)
\* The cycle got past the sidebar and computed the derived views.
Aggregated == status \in {"ok", "error"} /\ "df_gr" \in DOMAIN views

WindowRowsOf(c) == CountryRows(views.window, c)
WindowCountries == {Ctry(r) : r \in Range(views.window)}
WindowSum(c) == SumOver(WindowRowsOf(c), metric)

\* C1: Growth Rate Series.  In every cycle, for each row of the series: when
\* no window row of its country has an earlier date its growth rate is 0;
\* otherwise, when the metric of the window row of its country with the
\* immediately preceding date is not 0, its growth rate is
\* (current - previous) / previous.
C1_GrowthRateByDate ==
    Aggregated =>
        \A i \in DOMAIN views.df_gr :
            LET g == views.df_gr[i]
                earlier == {r \in Range(WindowRowsOf(g.Country)) : r.Date.v < g.Date}
            IN IF earlier = {} THEN g.GrowthRate = Zero
               ELSE LET prev == CHOOSE r \in earlier : \A x \in earlier : x.Date.v <= r.Date.v
                    IN prev[metric].v # 0 =>
                          g.GrowthRate = Fin(g.Value - prev[metric].v, prev[metric].v)

\* C2: Top-N Ranking.  When the window holds at least 10 countries, the table
\* has 10, 11 or 12 rows, no country twice, a row for both selected
\* countries; its first 10 rows are countries with the largest window sums
\* and the rows after them are selected countries.
C2_RankingHasSelected ==
    (Aggregated /\ Cardinality(WindowCountries) >= head_n) =>
        LET top == views.df_top
            names == {top[i].Country : i \in DOMAIN top}
            first == {top[i].Country : i \in 1..head_n}
        IN /\ Len(top) \in head_n..(head_n + 2)
           /\ Cardinality(names) = Len(top)
           /\ {c1, c2} \subseteq names
           /\ \A i \in DOMAIN top : top[i].Total = WindowSum(top[i].Country)
           /\ \A i \in 1..head_n : \A x \in WindowCountries \ first : WindowSum(x) <= top[i].Total
           /\ \A i \in (head_n + 1)..Len(top) : top[i].Country \in {c1, c2} \ first

\* C3: Combined-vs-Rest-of-World.  The combined total is the sum of the
\* metric over the window rows of the selected countries, each row once; the
\* global total is the sum over all window rows; rest = global - combined.
C3_CombinedCountsOnce ==
    Aggregated =>
        /\ views.total_two =
              SumOver(SelectSeq(views.window, LAMBDA r : Ctry(r) \in {c1, c2}), metric)
        /\ views.total_world = SumOver(views.window, metric)
        /\ views.total_rest = views.total_world - views.total_two
        /\ views.total_two + views.total_rest = views.total_world

\* The row before row i of the growth series, in its country's group.
PrecedingInGroup(i) ==
    {j \in 1..(i - 1) : views.df_gr[j].Country = views.df_gr[i].Country}

\* C4: Zero denominators.  A row's CFR is null exactly when its cumulative
\* cases are 0 and is deaths / cases otherwise; a growth-series row whose
\* preceding value is 0 has growth rate zero or null; every CFR and growth
\* rate is a finite number or null.
C4_NoInfinity ==
    Aggregated =>
        /\ \A i \in DOMAIN views.df_cfr :
              LET r == views.df_cfr[i] IN
              /\ (r.CFR = NaN) <=> (r.Cumulative_cases = 0)
              /\ r.Cumulative_cases # 0 => r.CFR = Fin(r.Cumulative_deaths, r.Cumulative_cases)
              /\ r.CFR.k \in {"fin", "nan"}
        /\ \A i \in DOMAIN views.df_gr :
              /\ views.df_gr[i].GrowthRate.k \in {"fin", "nan"}
              /\ (PrecedingInGroup(i) # {} /\ views.df_gr[MaxOf(PrecedingInGroup(i))].Value = 0)
                    => views.df_gr[i].GrowthRate \in {Zero, NaN}

\* The cells of a raw row that hold one of the four numeric fields.
NumericFields(row) == (DOMAIN row) \cap {Fields[c] : c \in Range(NumericCols)}

\* C5: Preprocessor output.  Every row of the cleaned table has a country
\* text that is not empty once trimmed, "Unknown" when the raw table has no
\* country column, and each numeric field it has holds a number, 0 when the
\* raw cell could not be parsed.
C5_CleanRows ==
    status \in {"ok", "error"} =>
        \A i \in DOMAIN df.rows :
            /\ df.rows[i].Country.t = "str"
            /\ Strip(df.rows[i].Country.s) # <<>>
            /\ (\A c \in Range(df_raw.columns) : ~ Contains(Lower(c), country_lc))
                  => df.rows[i].Country.s = Unknown
            /\ \A f \in NumericFields(df_raw.rows[i]) :
                  /\ df.rows[i][f].t = "num"
                  /\ to_numeric(df_raw.rows[i][f]).t = "null" => df.rows[i][f].v = 0

\* The fixed order of the candidates.
ResolutionOrder == <<CWD_FILE, SCRIPT_FILE>> \o (IF envSet THEN <<ENV_URL>> ELSE <<>>) \o <<github_raw>>

\* C6: Loader resolution order.  The attempts of a cycle are a prefix of the
\* fixed order (the override only when set); every attempt but the last
\* failed with file-not-found; a successful attempt is the last one and its
\* table is the one returned and memoized; when every candidate failed with
\* file-not-found the remediation message is shown and the cycle is halted,
\* with no table and no unhandled error.
C6_ResolutionOrder ==
    /\ Len(tried) <= Len(ResolutionOrder)
    /\ \A i \in DOMAIN tried :
          /\ tried[i].candidate = ResolutionOrder[i]
          /\ i < Len(tried) => tried[i].outcome = "notfound"
          /\ tried[i].outcome = "ok" =>
                /\ i = Len(tried)
                /\ status \in {"ok", "error"}
                /\ df_raw = StripColumns(served[tried[i].candidate])
                /\ cache = Cached(df_raw)
                /\ shown = NoMessage
    /\ (tried # <<>> /\ \A i \in DOMAIN tried : tried[i].outcome = "notfound") =>
          /\ Len(tried) = Len(ResolutionOrder)
          /\ shown = Remediation
          /\ status = "halted"
          /\ df_raw = EmptyTable
          /\ cache = NoCache

C6_Witness ==
    /\ envSet
    /\ Len(tried) = 4
    /\ tried[4].outcome = "ok"
    /\ status = "ok"

\* C7: Loader abort policy.  An attempt, of any of the four candidates, that
\* failed otherwise than with file-not-found is the last of its cycle, the
\* cycle is halted, and the error shown names that candidate and the cause.
C7_AbortNamesCandidate ==
    \A i \in DOMAIN tried :
        tried[i].outcome = "other" =>
            /\ i = Len(tried)
            /\ status = "halted"
            /\ shown = ReadError(tried[i].candidate, tried[i].outcome)

\* C8: Memoized load.  A step that leaves the sources alone is a render
\* cycle.  Once a table is memoized, every cycle attempts no candidate and
\* receives the memoized table, which never changes; a halted cycle has
\* memoized nothing and attempted no candidate twice, and a cycle that
\* starts with nothing memoized attempts the candidates from the first.
C8_Memoized ==
    /\ [][(cache.has /\ fs' = fs) =>
             /\ cache' = cache
             /\ tried' = <<>>
             /\ status' \in {"ok", "error"}
             /\ df_raw' = cache.table]_vars
    /\ [][cache.has => cache' = cache]_vars
    /\ [][(~ cache.has /\ fs' = fs) =>
             /\ tried' # <<>>
             /\ tried'[1].candidate = CWD_FILE
             /\ \A i, j \in DOMAIN tried' : i # j => tried'[i].candidate # tried'[j].candidate
             /\ status' = "halted" => ~ cache'.has]_vars

\* A cycle served from the memo although the first candidate now holds
\* another table.
C8_Witness ==
    /\ cache.has
    /\ tried = <<>>
    /\ status = "ok"
    /\ fs[CWD_FILE] = "ok"
    /\ df_raw # StripColumns(served[CWD_FILE])

\* The window is empty, or a selected country has no row in it.
EmptyInput ==
    Aggregated /\ (WindowRowsOf(c1) = <<>> \/ WindowRowsOf(c2) = <<>>)

\* What every aggregation but the maximum/mean summary returns on an empty
\* input: no row for a selected country without rows; with an empty window,
\* empty tables and zero totals.
EmptyOrZero ==
    /\ status = "ok"
    /\ \A c \in {c1, c2} :
          WindowRowsOf(c) = <<>> =>
              /\ \A i \in DOMAIN views.df_compare : Ctry(views.df_compare[i]) # c
              /\ \A i \in DOMAIN views.df_gr : views.df_gr[i].Country # c
              /\ \A i \in DOMAIN views.df_cfr : views.df_cfr[i].Country # c
              /\ \A i \in DOMAIN views.df_top : views.df_top[i].Country # c
    /\ (WindowRowsOf(c1) = <<>> /\ WindowRowsOf(c2) = <<>>) => views.total_two = 0
    /\ views.window = <<>> =>
          /\ views.df_global = <<>>
          /\ views.df_top = <<>>
          /\ views.total_world = 0
          /\ views.total_rest = 0

\* C9 as stated: on an empty input every aggregation, the maximum/mean
\* summary included, completes with an empty or zero-valued result.
C9_EmptyOrZeroSummary ==
    EmptyInput =>
        /\ EmptyOrZero
        /\ WindowRowsOf(c1) = <<>> => (views.peak1 = Zero /\ views.mean1 = Zero)
        /\ WindowRowsOf(c2) = <<>> => (views.peak2 = Zero /\ views.mean2 = Zero)

\* C9, amended: on an empty input every aggregation completes without an
\* error; the results are empty or zero-valued, except the maximum and the
\* mean of a selected country without rows, which are null (NaN).
C9_EmptyTotal ==
    EmptyInput =>
        /\ EmptyOrZero
        /\ WindowRowsOf(c1) = <<>> => (views.peak1 = NaN /\ views.mean1 = NaN)
        /\ WindowRowsOf(c2) = <<>> => (views.peak2 = NaN /\ views.mean2 = NaN)

\* A cycle over a window without rows.
C9_Witness ==
    /\ status = "ok"
    /\ views.window = <<>>
    /\ df.rows # <<>>

\* C10: Default selections.  With at least one country in the cleaned table,
\* a cycle does not end in an error: the defaults of the selectors are valid.
C10_DefaultsValid ==
    (cache.has /\ status # "init" /\ all_countries(df) # <<>>) => status = "ok"

====
